---- MODULE Spec2Model ----
(***************************************************************************)
(* zfs-diff-explorer (src/index.mjs): the line parser zfsLines, the        *)
(* hierarchy builder getTreeFromZfs / addSegments / getChild, the pruner   *)
(* pruneTree and the UploadArea component that retains the built tree and  *)
(* re-prunes it on every checkbox change.                                  *)
(*                                                                         *)
(* A JavaScript string is a sequence of tokens.  Every token stands for    *)
(* the characters it spells; TAB, SLASH and the members of OneChar are one *)
(* character long, ARROW, PROTO, "b.txt" and "c.txt" are longer.  No token *)
(* is a concatenation of other tokens and the space and ">" occur only in  *)
(* ARROW, so two strings are equal iff their token sequences are, and the  *)
(* substring " -> " occurs exactly where an ARROW token does.  No token    *)
(* holds a line terminator (the texts are split on "\n" and have no "\r",  *)
(* U+2028 or U+2029), so "." of the two patterns matches every character.  *)
(*                                                                         *)
(* A Hierarchy is a record [children, changes, hasChanges]: children is a  *)
(* function from segment strings to Hierarchy records (the own enumerable  *)
(* properties of the children object), changes the Change[] array and      *)
(* hasChanges tells whether the changes property holds an array at all     *)
(* (FALSE: undefined).  An optional value is a sequence of length 0        *)
(* (undefined) or 1.                                                       *)
(***************************************************************************)
EXTENDS Integers, Sequences, FiniteSets, TLC

VARIABLES
    status,       \* getTreeFromZfs: "reading" (in its for-of loop), "built" (returned), "failed" (threw)
    hierarchy,    \* getTreeFromZfs: the local hierarchy being filled
    nLines,       \* number of lines zfsLines has taken from data.split("\n")
    tree,         \* UploadArea.tree (optional)
    options,      \* the ParseOptions of the latest showResult pass / the five checkboxes
    prunedTree,   \* showResult: what pruneTree returned in the latest pass (optional)
    resultItem,   \* the tree of the <result-item> in document.body (optional)
    pending,      \* file-input change handlers suspended in "await file.text()"
    selected,     \* history: number of file selections so far
    matched,      \* history: number of lines taken that have the shape <one char><TAB><non-empty rest>
    sawBad,       \* history: a taken line is one the specification calls a hard failure
    sawBadSep,    \* history: as sawBad, a rename needing a character on both sides of " -> "
    firstSegs,    \* history: the first path segments (after the leading "/") of the records yielded
    scenario,     \* history: how far the taken lines follow the two-line scenario input
    builtTree,    \* history: the tree as getTreeFromZfs returned it (optional)
    latestTree,   \* history: the tree built from the most recently selected file (optional)
    allBuild      \* history: getTreeFromZfs succeeds on the text of every file selected so far

vars == <<status, hierarchy, nLines, tree, options, prunedTree, resultItem, pending,
          selected, matched, sawBad, sawBadSep, firstSegs, scenario, builtTree, latestTree, allBuild>>

----------------------------------------------------------------------------
(* Bounds *)

MaxLines == 3        \* lines per input in Spec
MaxBuildLines == 2   \* lines per input in SpecBuild
MaxRestLen == 3      \* tokens after the TAB of a generated line in SpecBuild
MaxSelections == 3   \* file selections in SpecUI

----------------------------------------------------------------------------
(* Strings *)

TAB == "\t"
SLASH == "/"
ARROW == " -> "
PROTO == "__proto__"

OneChar == {TAB, SLASH, "a", "+", "-", "M", "R", "X"}

Undefined == <<>>

Max(S) == CHOOSE i \in S : \A j \in S : j <= i

Min(S) == CHOOSE i \in S : \A j \in S : i <= j

\* String.prototype.startsWith, for a one-character prefix
startsWith(s, c) == Len(s) >= 1 /\ s[1] = c

\* String.prototype.split, for a one-character separator
RECURSIVE split(_, _)
split(s, sep) ==
    LET at == {i \in 1..Len(s) : s[i] = sep}
    IN  IF at = {} THEN <<s>>
        ELSE <<SubSeq(s, 1, Min(at) - 1)>> \o split(SubSeq(s, Min(at) + 1, Len(s)), sep)

\* line.match(/^(.)\t(.+)$/): <<m[1], m[2]>>, or Undefined when there is no match
matchLine(line) ==
    IF Len(line) >= 3 /\ line[1] \in OneChar /\ line[2] = TAB
    THEN <<line[1], SubSeq(line, 3, Len(line))>>
    ELSE Undefined

\* A faulty variant of matchRename: the separator may end the string.
matchRenameTrailing(path) ==
    LET at == {i \in 2..Len(path) : path[i] = ARROW}
    IN  IF at = {} THEN Undefined
        ELSE <<SubSeq(path, 1, Max(at) - 1), SubSeq(path, Max(at) + 1, Len(path))>>

\* path.match(/(.+) -> (.+)$/): the first group is greedy, so the separator
\* is the last " -> " with a character on both sides
matchRename(path) ==
    LET at == {i \in 2..(Len(path) - 1) : path[i] = ARROW}
    IN  IF at = {} THEN Undefined
        ELSE <<SubSeq(path, 1, Max(at) - 1), SubSeq(path, Max(at) + 1, Len(path))>>

----------------------------------------------------------------------------
(* Line Parser *)

\* One iteration of the loop of zfsLines: "skip" (continue), "throw", or
\* "yield" with the pair [change, path]
zfsLines(line) ==
    LET m == matchLine(line)
        m2 == matchRename(m[2])
    IN  IF line = <<>> THEN [tag |-> "skip"]
        ELSE IF m = Undefined THEN [tag |-> "skip"]
        ELSE IF m[1] = "R"
             THEN IF m2 = Undefined
                  THEN [tag |-> "throw"]
                  ELSE [tag |-> "yield", change |-> [type |-> "R", movedTo |-> m2[2]], path |-> m2[1]]
             ELSE [tag |-> "yield", change |-> [type |-> m[1]], path |-> m[2]]

----------------------------------------------------------------------------
(* Hierarchy Builder *)

NoChildren == [key \in {} |-> Undefined]

\* { children: {} }
NewHierarchy == [children |-> NoChildren, changes |-> <<>>, hasChanges |-> FALSE]

RECURSIVE count(_)
count(h) ==
    LET RECURSIVE Sum(_)
        Sum(keys) ==
            IF keys = {} THEN 0
            ELSE LET key == CHOOSE k \in keys : TRUE
                     child == h.children[key]
                 IN  (IF child.hasChanges /\ Len(child.changes) > 0 THEN 1 ELSE 0)
                     + count(child) + Sum(keys \ {key})
    IN  Sum(DOMAIN h.children)

\* getChild's result: the own property of that name, or a created { children: {} }
getChild(h, value) ==
    IF value \in DOMAIN h.children THEN h.children[value] ELSE NewHierarchy

\* The own properties of h.children once the child named value holds child.
\* "hierarchy.children[value] = created" defines an own property for every
\* name but "__proto__": that assignment runs the inherited __proto__ setter,
\* which makes created the prototype of the children object and adds no own
\* property, so Object.hasOwn, Object.values and Object.entries never see it.
setChild(h, value, child) ==
    IF value = <<PROTO>> THEN h
    ELSE [h EXCEPT !.children = (value :> child) @@ @]

\* hierarchy.changes ??= []; hierarchy.changes.push(change)
pushChange(h, change) ==
    [h EXCEPT !.changes = Append(@, change), !.hasChanges = TRUE]

\* A faulty variant of addSegments: an empty segment that is not the last one creates no node.
RECURSIVE addSegmentsSkipEmpty(_, _, _)
addSegmentsSkipEmpty(h, segments, change) ==
    IF Len(segments) = 0 THEN pushChange(h, change)
    ELSE IF Len(segments) = 1 /\ segments[1] = <<>> THEN pushChange(h, change)
    ELSE IF segments[1] = <<>> THEN addSegmentsSkipEmpty(h, Tail(segments), change)
    ELSE setChild(h, segments[1],
                  addSegmentsSkipEmpty(getChild(h, segments[1]), Tail(segments), change))

RECURSIVE addSegments(_, _, _)
addSegments(h, segments, change) ==
    IF Len(segments) = 0 THEN pushChange(h, change)
    ELSE IF Len(segments) = 1 /\ segments[1] = <<>> THEN pushChange(h, change)
    ELSE setChild(h, segments[1],
                  addSegments(getChild(h, segments[1]), Tail(segments), change))

\* One iteration of the for-of loop of getTreeFromZfs over zfsLines
consume(h, line) ==
    LET res == zfsLines(line)
    IN  IF res.tag = "skip" THEN [status |-> "reading", hierarchy |-> h]
        ELSE IF res.tag = "throw" THEN [status |-> "failed", hierarchy |-> h]
        ELSE IF ~startsWith(res.path, SLASH) THEN [status |-> "failed", hierarchy |-> h]
        ELSE [status |-> "reading",
              hierarchy |-> addSegments(h, split(res.path, SLASH), res.change)]

\* getTreeFromZfs on the lines of fileData: the tree, or Undefined when it throws
RECURSIVE buildFrom(_, _)
buildFrom(h, lines) ==
    IF lines = <<>> THEN <<h>>
    ELSE LET step == consume(h, Head(lines))
         IN  IF step.status = "failed" THEN Undefined
             ELSE buildFrom(step.hierarchy, Tail(lines))

getTreeFromZfs(fileData) == buildFrom(NewHierarchy, fileData)

----------------------------------------------------------------------------
(* Hierarchy Pruner *)

FilterConfigs ==
    [includeRenamed : BOOLEAN, includeModified : BOOLEAN, includeAdditions : BOOLEAN,
     includeDeletions : BOOLEAN, includeAddDel : BOOLEAN]

\* tree.changes?.find(type "-") != null && tree.changes?.find(type "+") != null
isAddDel(t) ==
    /\ t.hasChanges
    /\ \E i \in 1..Len(t.changes) : t.changes[i].type = "-"
    /\ \E i \in 1..Len(t.changes) : t.changes[i].type = "+"

\* A faulty variant of keep: on an add+del node the separate toggles still apply.
keepSeparate(change, addDel, opts) ==
    IF change.type = "R" /\ ~opts.includeRenamed THEN FALSE
    ELSE IF change.type = "M" /\ ~opts.includeModified THEN FALSE
    ELSE IF addDel /\ ~opts.includeAddDel THEN FALSE
    ELSE IF change.type = "+" /\ ~opts.includeAdditions THEN FALSE
    ELSE IF change.type = "-" /\ ~opts.includeDeletions THEN FALSE
    ELSE TRUE

\* A faulty variant of keep: the test of includeAddDel is inverted.
keepInverted(change, addDel, opts) ==
    IF change.type = "R" /\ ~opts.includeRenamed THEN FALSE
    ELSE IF change.type = "M" /\ ~opts.includeModified THEN FALSE
    ELSE IF addDel
         THEN IF opts.includeAddDel THEN FALSE ELSE TRUE
         ELSE IF change.type = "+" /\ ~opts.includeAdditions THEN FALSE
              ELSE IF change.type = "-" /\ ~opts.includeDeletions THEN FALSE
              ELSE TRUE

\* A faulty variant of keep: an add+del node hidden by includeAddDel loses only its
\* deletion records.
keepDropDeletion(change, addDel, opts) ==
    IF change.type = "R" /\ ~opts.includeRenamed THEN FALSE
    ELSE IF change.type = "M" /\ ~opts.includeModified THEN FALSE
    ELSE IF addDel
         THEN IF change.type = "-" /\ ~opts.includeAddDel THEN FALSE ELSE TRUE
         ELSE IF change.type = "+" /\ ~opts.includeAdditions THEN FALSE
              ELSE IF change.type = "-" /\ ~opts.includeDeletions THEN FALSE
              ELSE TRUE

\* The callback of tree.changes?.filter(...)
keep(change, addDel, opts) ==
    IF change.type = "R" /\ ~opts.includeRenamed THEN FALSE
    ELSE IF change.type = "M" /\ ~opts.includeModified THEN FALSE
    ELSE IF addDel
         THEN IF ~opts.includeAddDel THEN FALSE ELSE TRUE
         ELSE IF change.type = "+" /\ ~opts.includeAdditions THEN FALSE
              ELSE IF change.type = "-" /\ ~opts.includeDeletions THEN FALSE
              ELSE TRUE

\* The indices of tree.changes that the filter keeps
kept(t, opts) ==
    {i \in 1..Len(t.changes) : keep(t.changes[i], isAddDel(t), opts)}

\* const changes = tree.changes?.filter(...)
filterChanges(t, opts) ==
    LET addDel == isAddDel(t)
        Test(change) == keep(change, addDel, opts)
    IN  SelectSeq(t.changes, Test)

\* A faulty variant of isEmptyResult: a node without surviving changes is dropped
\* even when children survive.
isEmptyResultNoChanges(updated) ==
    Len(updated.changes) = 0

\* !updated.changes?.length && Object.keys(updated.children).length === 0
isEmptyResult(updated) ==
    Len(updated.changes) = 0 /\ DOMAIN updated.children = {}

\* pruneTree: Undefined, or the rebuilt node
RECURSIVE pruneTree(_, _)
pruneTree(t, opts) ==
    LET results == [key \in DOMAIN t.children |-> pruneTree(t.children[key], opts)]
        keys == {key \in DOMAIN t.children : results[key] # Undefined}
        updated == [children |-> [key \in keys |-> results[key][1]],
                    changes |-> filterChanges(t, opts),
                    hasChanges |-> t.hasChanges]
    IN  IF isEmptyResult(updated) THEN Undefined ELSE <<updated>>

\* A faulty variant of pruneTreeInput: the filter is applied in place.
pruneTreeInPlace(t, opts) ==
    IF pruneTree(t, opts) = Undefined THEN NewHierarchy ELSE pruneTree(t, opts)[1]

\* The argument of pruneTree once it has returned: filter, Object.entries and
\* Object.fromEntries build new objects and nothing is assigned to tree
pruneTreeInput(t, opts) == t

\* { children: {}, changes: [] }
EmptyTree == [children |-> NoChildren, changes |-> <<>>, hasChanges |-> TRUE]

\* showResult, from the pruneTree call to the tree handed to <result-item>
substitute(pruned) ==
    IF pruned = Undefined THEN <<EmptyTree>> ELSE pruned

----------------------------------------------------------------------------
(* Inputs *)

Strings(chars, n) == UNION {[1..m -> chars] : m \in 1..n}

\* SpecBuild: every rest of at most MaxRestLen tokens after "+<TAB>" and
\* "R<TAB>", a blank line, lines outside the grammar, and the two lines of
\* the scenario input
RestChars == {SLASH, "a", PROTO, ARROW}

JunkLines == {<<"a">>, <<"+", TAB>>, <<"+", SLASH, "a">>, <<PROTO, TAB, SLASH, "a">>}

ScenarioLine1 == <<"+", TAB, SLASH, "a", SLASH, "b.txt">>

ScenarioLine2 == <<"-", TAB, SLASH, "a", SLASH, "c.txt">>

BuildLines ==
    {<<>>} \cup JunkLines \cup {ScenarioLine1, ScenarioLine2}
    \cup {<<kind, TAB>> \o rest : kind \in {"+", "R"}, rest \in Strings(RestChars, MaxRestLen)}

\* Spec: well-formed lines of every kind for a directory and a file in it
PrunePaths == {<<SLASH, "a">>, <<SLASH, "a", SLASH, "a">>}

PruneLines ==
    {<<kind, TAB>> \o path : kind \in {"+", "-", "M", "X"}, path \in PrunePaths}
    \cup {<<"R", TAB>> \o path \o <<ARROW, SLASH, "a">> : path \in PrunePaths}

\* SpecUI: the texts of the files the user can choose, as their lines
Files ==
    { <<<<"+", TAB, SLASH, "a">>, <<"-", TAB, SLASH, "a">>, <<>>>>,
      <<<<"M", TAB, SLASH, "a", SLASH, "a">>, <<>>>>,
      <<<<"+", TAB, "a">>>> }

----------------------------------------------------------------------------
(* What the specification says of a line *)

\* <one char><TAB><non-empty rest>
GrammarLine(line) == Len(line) >= 3 /\ line[1] \in OneChar /\ line[2] = TAB

RestOfLine(line) == SubSeq(line, 3, Len(line))

HasSeparator(rest) == \E i \in 1..Len(rest) : rest[i] = ARROW

HasInnerSeparator(rest) == \E i \in 2..(Len(rest) - 1) : rest[i] = ARROW

\* The path of a line: the rest, for a rename the source path before the separator
PathOf(line) ==
    LET rest == RestOfLine(line)
        at == {i \in 1..Len(rest) : rest[i] = ARROW}
        inner == {i \in 2..(Len(rest) - 1) : rest[i] = ARROW}
    IN  IF line[1] # "R" \/ at = {} THEN rest
        ELSE IF inner # {} THEN SubSeq(rest, 1, Max(inner) - 1)
        ELSE SubSeq(rest, 1, Max(at) - 1)

\* A rename without " -> ", or a path that does not start with "/"
HardFailure(line) ==
    /\ GrammarLine(line)
    /\ \/ line[1] = "R" /\ ~HasSeparator(RestOfLine(line))
       \/ ~startsWith(PathOf(line), SLASH)

\* A rename without a " -> " that has a character on both sides, or a path
\* that does not start with "/"
HardFailureSep(line) ==
    /\ GrammarLine(line)
    /\ \/ line[1] = "R" /\ ~HasInnerSeparator(RestOfLine(line))
       \/ ~startsWith(PathOf(line), SLASH)

\* The first path segment after the leading "/"
FirstSegment(line) == split(PathOf(line), SLASH)[2]

ScenarioNext(at, line) ==
    IF at = "start" /\ line = ScenarioLine1 THEN "first"
    ELSE IF at = "first" /\ line = ScenarioLine2 THEN "both"
    ELSE "other"

----------------------------------------------------------------------------
(* Actions *)

Checkboxes ==
    {"includeRenamed", "includeModified", "includeAdditions", "includeDeletions", "includeAddDel"}

Init ==
    /\ status = "idle"
    /\ hierarchy = NewHierarchy
    /\ nLines = 0
    /\ tree = Undefined
    /\ options = [name \in Checkboxes |-> TRUE]
    /\ prunedTree = Undefined
    /\ resultItem = Undefined
    /\ pending = {}
    /\ selected = 0
    /\ matched = 0
    /\ sawBad = FALSE
    /\ sawBadSep = FALSE
    /\ firstSegs = {}
    /\ scenario = "start"
    /\ builtTree = Undefined
    /\ latestTree = Undefined
    /\ allBuild = TRUE

\* showResult() when this.tree is t and the checkboxes read opts
showResult(t, opts) ==
    IF t = Undefined
    THEN /\ tree' = t
         /\ UNCHANGED <<prunedTree, resultItem>>
    ELSE /\ prunedTree' = pruneTree(t[1], opts)
         /\ resultItem' = substitute(pruneTree(t[1], opts))
         /\ tree' = <<pruneTreeInput(t[1], opts)>>

\* The change handler of the file input has the text and calls getTreeFromZfs
StartBuild ==
    /\ status = "idle"
    /\ status' = "reading"
    /\ UNCHANGED <<hierarchy, nLines, tree, options, prunedTree, resultItem, pending, selected,
                   matched, sawBad, sawBadSep, firstSegs, scenario, builtTree, latestTree, allBuild>>

\* The loop of getTreeFromZfs takes the next line of the text
ReadLine(line, max) ==
    /\ status = "reading"
    /\ nLines < max
    /\ LET step == consume(hierarchy, line)
       IN  /\ status' = step.status
           /\ hierarchy' = step.hierarchy
           /\ firstSegs' = IF step.status = "reading" /\ GrammarLine(line)
                           THEN firstSegs \cup {FirstSegment(line)}
                           ELSE firstSegs
    /\ nLines' = nLines + 1
    /\ matched' = IF GrammarLine(line) THEN matched + 1 ELSE matched
    /\ sawBad' = (sawBad \/ HardFailure(line))
    /\ sawBadSep' = (sawBadSep \/ HardFailureSep(line))
    /\ scenario' = ScenarioNext(scenario, line)
    /\ UNCHANGED <<tree, options, prunedTree, resultItem, pending, selected, builtTree, latestTree,
                   allBuild>>

\* The text has no more lines: getTreeFromZfs returns, the handler stores
\* the tree and calls showResult
EndOfData ==
    /\ status = "reading"
    /\ status' = "built"
    /\ builtTree' = <<hierarchy>>
    /\ showResult(<<hierarchy>>, options)
    /\ UNCHANGED <<hierarchy, nLines, options, pending, selected, matched, sawBad, sawBadSep,
                   firstSegs, scenario, latestTree, allBuild>>

\* The change handler of a checkbox: the box has flipped, showResult runs
Toggle(name) ==
    /\ status # "reading"
    /\ options' = [options EXCEPT ![name] = ~@]
    /\ showResult(tree, [options EXCEPT ![name] = ~@])
    /\ UNCHANGED <<status, hierarchy, nLines, pending, selected, matched, sawBad, sawBadSep,
                   firstSegs, scenario, builtTree, latestTree, allBuild>>

\* The change handler of the file input starts and suspends in file.text()
SelectFile(text) ==
    /\ selected < MaxSelections
    /\ selected' = selected + 1
    /\ pending' = pending \cup {[id |-> selected + 1, text |-> text]}
    /\ latestTree' = getTreeFromZfs(text)
    /\ allBuild' = (allBuild /\ getTreeFromZfs(text) # Undefined)
    /\ UNCHANGED <<status, hierarchy, nLines, tree, options, prunedTree, resultItem, matched,
                   sawBad, sawBadSep, firstSegs, scenario, builtTree>>

\* file.text() of a suspended handler resolves: the handler builds the tree,
\* stores it and calls showResult; if getTreeFromZfs throws, the handler ends
ReadDone(handler) ==
    /\ handler \in pending
    /\ pending' = pending \ {handler}
    /\ LET built == getTreeFromZfs(handler.text)
       IN  IF built = Undefined
           THEN UNCHANGED <<tree, prunedTree, resultItem, builtTree>>
           ELSE /\ builtTree' = built
                /\ showResult(built, options)
    /\ UNCHANGED <<status, hierarchy, nLines, options, selected, matched, sawBad, sawBadSep,
                   firstSegs, scenario, latestTree, allBuild>>

\* One upload: the text is parsed and built line by line
NextBuild ==
    \/ StartBuild
    \/ \E line \in BuildLines : ReadLine(line, MaxBuildLines)
    \/ EndOfData

SpecBuild == Init /\ [][NextBuild]_vars

\* One upload, then pruning passes as the checkboxes change
Next ==
    \/ StartBuild
    \/ \E line \in PruneLines : ReadLine(line, MaxLines)
    \/ EndOfData
    \/ \E name \in Checkboxes : Toggle(name)

Spec == Init /\ [][Next]_vars

\* Several uploads whose reads complete in any order, and checkbox changes
NextUI ==
    \/ \E text \in Files : SelectFile(text)
    \/ \E handler \in [id : 1..MaxSelections, text : Files] : ReadDone(handler)
    \/ \E name \in Checkboxes : Toggle(name)

SpecUI == Init /\ [][NextUI]_vars

----------------------------------------------------------------------------
(* Trees, as the properties below read them *)

\* The paths (sequences of child keys) of the nodes of a tree, <<>> for its root
RECURSIVE Paths(_)
Paths(t) ==
    {<<>>} \cup UNION {{<<key>> \o p : p \in Paths(t.children[key])} : key \in DOMAIN t.children}

RECURSIVE NodeAt(_, _)
NodeAt(t, p) == IF p = <<>> THEN t ELSE NodeAt(t.children[Head(p)], Tail(p))

OptPaths(opt) == IF opt = Undefined THEN {} ELSE Paths(opt[1])

\* The records at path p of an optional tree, none when there is no such node
RecordsAt(opt, p) == IF p \in OptPaths(opt) THEN NodeAt(opt[1], p).changes ELSE <<>>

RECURSIVE TotalRecords(_)
TotalRecords(t) ==
    LET RECURSIVE Sum(_)
        Sum(keys) ==
            IF keys = {} THEN 0
            ELSE LET key == CHOOSE k \in keys : TRUE
                 IN  TotalRecords(t.children[key]) + Sum(keys \ {key})
    IN  Len(t.changes) + Sum(DOMAIN t.children)

OfTypes(changes, types) ==
    LET Test(change) == change.type \in types
    IN  SelectSeq(changes, Test)

HasType(changes, type) == \E i \in 1..Len(changes) : changes[i].type = type

RECURSIVE IsSubSeq(_, _)
IsSubSeq(a, b) ==
    IF a = <<>> THEN TRUE
    ELSE IF b = <<>> THEN FALSE
    ELSE IF Head(a) = Head(b) THEN IsSubSeq(Tail(a), Tail(b))
    ELSE IsSubSeq(a, Tail(b))

\* A pruning pass has run on the built tree
Pruned == status = "built" /\ resultItem # Undefined

\* Config a has no flag that config b lacks
AtMost(a, b) == \A name \in Checkboxes : a[name] => b[name]

----------------------------------------------------------------------------
(* C1 *)

AddDelRule(changes, change, opts) ==
    IF HasType(changes, "+") /\ HasType(changes, "-") THEN opts.includeAddDel
    ELSE IF change.type = "+" THEN opts.includeAdditions
    ELSE opts.includeDeletions

\* C1: after a pruning pass, at every node of the built tree the "+" and "-"
\* records that survive are exactly all of them when the node has both kinds
\* and includeAddDel is set, none of them when it has both kinds and
\* includeAddDel is clear, and otherwise the "+" records iff includeAdditions
\* and the "-" records iff includeDeletions.
C1_AddDelPrecedence ==
    Pruned =>
        \A p \in Paths(builtTree[1]) :
            LET changes == NodeAt(builtTree[1], p).changes
                Rule(change) == AddDelRule(changes, change, options)
            IN  OfTypes(RecordsAt(prunedTree, p), {"+", "-"})
                    = SelectSeq(OfTypes(changes, {"+", "-"}), Rule)

\* A node with an addition and a deletion, pruned with includeAddDel clear and
\* includeAdditions and includeDeletions set, keeps neither record.
C1_Witness ==
    /\ Pruned
    /\ ~options.includeAddDel /\ options.includeAdditions /\ options.includeDeletions
    /\ \E p \in Paths(builtTree[1]) :
            /\ HasType(NodeAt(builtTree[1], p).changes, "+")
            /\ HasType(NodeAt(builtTree[1], p).changes, "-")
            /\ OfTypes(RecordsAt(prunedTree, p), {"+", "-"}) = <<>>

----------------------------------------------------------------------------
(* C2 *)

OtherRule(change, opts) ==
    IF change.type = "R" THEN opts.includeRenamed
    ELSE IF change.type = "M" THEN opts.includeModified
    ELSE TRUE

\* C2: after a pruning pass, at every node of the built tree (also one that has
\* both a "+" and a "-" record) the surviving records of kinds other than "+"
\* and "-" are the "R" records iff includeRenamed, the "M" records iff
\* includeModified and every record of another kind, whatever includeAddDel,
\* includeAdditions and includeDeletions are.
C2_OtherKindsUnaffected ==
    Pruned =>
        \A p \in Paths(builtTree[1]) :
            LET changes == NodeAt(builtTree[1], p).changes
                Rule(change) == OtherRule(change, options)
                others == {"R", "M", "X"}
            IN  OfTypes(RecordsAt(prunedTree, p), others)
                    = SelectSeq(OfTypes(changes, others), Rule)

----------------------------------------------------------------------------
(* C6 *)

\* C6: pruning the result of a pruning pass again with the same config gives
\* the same tree; when the pass gave the empty-result marker, pruning the
\* substituted empty tree gives the marker again.
C6_Idempotent ==
    Pruned =>
        IF prunedTree # Undefined
        THEN pruneTree(prunedTree[1], options) = prunedTree
        ELSE pruneTree(resultItem[1], options) = Undefined

\* A pass removed some record and kept another
C6_Witness ==
    /\ Pruned
    /\ prunedTree # Undefined
    /\ TotalRecords(prunedTree[1]) > 0
    /\ TotalRecords(prunedTree[1]) < TotalRecords(builtTree[1])
    /\ Cardinality(Paths(prunedTree[1])) < Cardinality(Paths(builtTree[1]))

----------------------------------------------------------------------------
(* C7 *)

\* C7: every node and every record that survives the pass under the current
\* config survives pruning the built tree under every config that has at
\* least the same flags set.
C7_Monotone ==
    Pruned =>
        \A b \in FilterConfigs :
            AtMost(options, b) =>
                LET more == pruneTree(builtTree[1], b)
                IN  /\ OptPaths(prunedTree) \subseteq OptPaths(more)
                    /\ \A p \in OptPaths(prunedTree) :
                            IsSubSeq(RecordsAt(prunedTree, p), RecordsAt(more, p))

\* The pass under the current config kept something and a more permissive
\* config keeps a node more
C7_Witness ==
    /\ Pruned
    /\ prunedTree # Undefined
    /\ \E b \in FilterConfigs :
            /\ AtMost(options, b)
            /\ OptPaths(prunedTree) # OptPaths(pruneTree(builtTree[1], b))

----------------------------------------------------------------------------
(* C8 *)

\* Some record at t or below it passes the filter
HasSurvivor(t, opts) == \E p \in Paths(t) : kept(NodeAt(t, p), opts) # {}

\* C8: pruneTree gives the empty-result marker for a node of the built tree
\* iff no record at or below the node survives the filter; the nodes of the
\* pruned tree are exactly the nodes of the built tree that have a surviving
\* record at or below them, the root apart under the same paths.
C8_EmptyElimination ==
    Pruned =>
        /\ \A p \in Paths(builtTree[1]) :
                /\ (pruneTree(NodeAt(builtTree[1], p), options) = Undefined)
                        <=> ~HasSurvivor(NodeAt(builtTree[1], p), options)
                /\ (p \in OptPaths(prunedTree))
                        <=> HasSurvivor(NodeAt(builtTree[1], p), options)
        /\ OptPaths(prunedTree) \subseteq Paths(builtTree[1])
        /\ \A p \in OptPaths(prunedTree) : TotalRecords(NodeAt(prunedTree[1], p)) > 0

\* A node below the top level lost all its records and is gone from the
\* children of its parent, which stays
C8_Witness ==
    /\ Pruned
    /\ prunedTree # Undefined
    /\ \E p \in Paths(builtTree[1]) :
            /\ Len(p) >= 3
            /\ Len(NodeAt(builtTree[1], p).changes) > 0
            /\ p \notin Paths(prunedTree[1])
            /\ SubSeq(p, 1, Len(p) - 1) \in Paths(prunedTree[1])

----------------------------------------------------------------------------
(* C9 *)

----------------------------------------------------------------------------
(* C3 *)

Leaf(change) == [children |-> NoChildren, changes |-> <<change>>, hasChanges |-> TRUE]

Dir(children) == [children |-> children, changes |-> <<>>, hasChanges |-> FALSE]

ScenarioDirA ==
    Dir((<<"b.txt">> :> Leaf([type |-> "+"])) @@ (<<"c.txt">> :> Leaf([type |-> "-"])))

\* C3 as stated: the root's children are keyed by first path segments, no
\* child stands for the leading "/", and the scenario input gives
\* root -> a -> {b.txt, c.txt} with count(root) = 2.
C3_LeadingSegmentConsumed ==
    status = "built" =>
        /\ DOMAIN hierarchy.children \subseteq firstSegs
        /\ scenario = "both" =>
                /\ hierarchy = Dir(<<"a">> :> ScenarioDirA)
                /\ count(hierarchy) = 2

\* C3, amended: the leading empty segment creates a child of the root keyed
\* by the empty string.  The root has no change of its own and no other
\* child, it has that child as soon as one record was added, every child of
\* that child is keyed by the first path segment of some record, and the
\* scenario input gives root -> "" -> a -> {b.txt, c.txt} with
\* count(root) = 2.
C3_LeadingSegmentIsNode ==
    status = "built" =>
        /\ ~hierarchy.hasChanges
        /\ DOMAIN hierarchy.children = (IF matched > 0 THEN {<<>>} ELSE {})
        /\ matched > 0 => DOMAIN hierarchy.children[<<>>].children \subseteq firstSegs
        /\ scenario = "both" =>
                /\ hierarchy = Dir(<<>> :> Dir(<<"a">> :> ScenarioDirA))
                /\ count(hierarchy) = 2

\* The scenario input has been built
C3_Witness ==
    /\ status = "built"
    /\ scenario = "both"
    /\ DOMAIN hierarchy.children = {<<>>}
    /\ DOMAIN hierarchy.children[<<>>].children = {<<"a">>}

----------------------------------------------------------------------------
(* C4 *)

\* C4 as stated: the build fails iff a line taken is a rename whose rest has
\* no " -> " or a line whose path does not start with "/"; an input of
\* skipped lines only builds the empty tree.
C4_FailsIffHardFailure ==
    /\ (status = "failed") <=> sawBad
    /\ (status = "built" /\ matched = 0) => (hierarchy = NewHierarchy /\ tree = <<NewHierarchy>>)

\* C4, amended: the build fails iff a line taken is a rename whose rest has
\* no " -> " with at least one character before it and one after it, or a
\* line whose path does not start with "/"; blank lines and lines outside
\* the grammar never fail, and an input of such lines only builds the empty
\* tree.
C4_FailsIffNoInnerSeparator ==
    /\ (status = "failed") <=> sawBadSep
    /\ (status = "failed") => tree = Undefined
    /\ (status = "built" /\ matched = 0) => (hierarchy = NewHierarchy /\ tree = <<NewHierarchy>>)

\* A skipped line, then a rename whose rest ends with the separator: the
\* build has failed
C4_Witness ==
    /\ status = "failed"
    /\ nLines = 2
    /\ matched = 1
    /\ sawBadSep
    /\ ~sawBad

----------------------------------------------------------------------------
(* C5 *)

\* C5: a built tree holds as many change records, over all its nodes, as
\* lines of the shape <one char><TAB><non-empty rest> were taken.
C5_RecordPerLine ==
    status = "built" => TotalRecords(hierarchy) = matched

----------------------------------------------------------------------------
(* C10 *)

\* C10: when every selected text builds, once no read is pending the result
\* shown is pruneTree of the tree of the most recently selected file under
\* the current checkboxes, the empty tree standing in for the marker; while
\* no build has completed nothing is shown.
C10_LatestUploadShown ==
    /\ tree = Undefined => resultItem = Undefined
    /\ (allBuild /\ selected > 0 /\ pending = {}) =>
            resultItem = substitute(pruneTree(latestTree[1], options))

====
